---- MODULE Spec2Model ----
(***************************************************************************)
(* A model of the attentive-guidance decoder and its training callbacks:   *)
(*   src/models/decoder.py  DecoderRNN.__init__ / DecoderRNN.forward       *)
(*   src/callbacks.py       KSParsityDecreaser                             *)
(* Tensors are sequences of rows, a row is a sequence of small integers.   *)
(* Metric values are integers 0..MaxMetric (the accuracy scaled by         *)
(* MaxMetric), the shrink factor is a fraction <<num, den>>.               *)
(***************************************************************************)
EXTENDS Integers, Sequences, FiniteSets, TLC

\* ------------------------------------------------------------------ bounds
\* width of a tensor's final dimension (hidden size)
Width == 3
\* entries of a tensor lie in -MaxVal..MaxVal
MaxVal == 2
\* number of target positions after the start symbol (inputs.size(1) - 1)
MaxLen == 3
\* examples per batch
BatchSize == 2
\* size of the output vocabulary
VocabSize == 3
\* metric values are 0..MaxMetric
MaxMetric == 3
\* epoch ends of a run of the controller
MaxEpochs == 4
\* epoch ends of a run with forward calls
RunEpochs == 2
\* largest initial_k_sparsity of a decoder whose gate is used
MaxK == 3
\* largest patience
MaxPatience == 3
\* the units of the teacher forcing ratio and of random.random()
CoinSteps == 2
\* the number of encoder tensors a call chooses from
PoolSize == 2
\* eval_batch calls on one L1Loss
MaxBatches == 2
\* largest layers x directions of an encoder hidden state
MaxLayers == 2
\* largest source length of an encoder output
MaxSrcLen == 2
\* largest number of tensors in a parameter list
MaxParams == 2
\* largest number of monitor datasets
MaxMonitors == 2

\* ------------------------------------------------------- program constants
sos_id == 0
eos_id == 1
\* initial_k_sparsity=100, the default of DecoderRNN.__init__
DefaultK == 100
\* patience=20, the default of KSParsityDecreaser.__init__
DefaultPatience == 20

Batch == 1..BatchSize
Vocab == 0..(VocabSize - 1)
Vals == (-MaxVal)..MaxVal
Cols == 1..Width
Rows == [Cols -> Vals]

\* the shrink factors of a run: 0.5, 0.75, 0.9 (the default) and 1.0. For each
\* of them Python's int(factor * k) equals (num * k) \div den for 0 <= k < 10^5.
Factors == {<<1, 2>>, <<3, 4>>, <<9, 10>>, <<1, 1>>}

None == "None"

Abs(x) == IF x < 0 THEN -x ELSE x

\* int(): truncation towards zero of the fraction n / d, d > 0
IntTrunc(n, d) == IF n >= 0 THEN n \div d ELSE -((-n) \div d)

\* The(S): the element of a singleton (used to evaluate a value once)
The(S) == CHOOSE x \in S : TRUE

RECURSIVE SumTo(_, _)
SumTo(f, n) == IF n = 0 THEN 0 ELSE f[n] + SumTo(f, n - 1)

VARIABLES
  \* DecoderRNN fields (k_sparsity_layers is <<>> for None, <<S>> for a list)
  use_k_sparsity, k_sparsity, k_sparsity_layers, use_attention,
  \* KSParsityDecreaser fields
  factor, patience, best, num_bad_epochs,
  \* history of the run: one record per on_epoch_end evaluation, with the
  \* metric value read, the fields before (best0, nb0, k0) and after (best1,
  \* nb1, k1), num_bad_epochs after lines 56-60 (counted), whether line 63
  \* ran (fire) and the k_sparsity sent to the logging sink (logged)
  hist,
  \* one DecoderRNN.forward call: the position in the call, its arguments
  \* (the caller's tensors, the targets, the ratio, the value random.random()
  \* returned) and its locals
  pc, caller_hidden, caller_outputs, inputs_given, inputs, max_length,
  teacher_forcing_ratio, rand, use_teacher_forcing, unrolling,
  encoder_hidden, encoder_outputs, decoder_hidden, decoder_output, attn,
  di, symbols, decoder_outputs, sequence_symbols, lengths, ret_dict,
  \* history of the call: writes to each lengths entry, the tensors gated,
  \* the decoder_input of every unrolled step and where it came from, the
  \* number of random.random() draws
  writes, gated, step_inputs, step_src, draws,
  \* the contents of the two tensor objects the caller passed, as every
  \* holder of them (the caller, ret_dict) sees them
  heap_hidden, heap_outputs,
  \* the gate applied to one tensor with several k: masked[k] is the gated
  \* copy for k
  tensor, masked,
  \* one L1Loss: its fields inputs, acc_loss (the int 0 or a tensor holding a
  \* sum) and norm_term; the result of the last get_loss call since the last
  \* eval_batch (<<>>: none); and the history of its eval_batch calls: their
  \* number, and the examples and the scalar entries they summed
  l1_inputs, acc_loss, norm_term, loss_val, batches, examples, scalars,
  \* CometLogger: the info of the last on_epoch_end call (<<>>: none), the
  \* mapping it sent to experiment.log_metrics (<<m>>, or <<>> when nothing
  \* was sent) and whether it raised
  info, sink, log_raised

decVars == <<use_k_sparsity, k_sparsity, k_sparsity_layers, use_attention>>
ctlVars == <<factor, patience, best, num_bad_epochs, hist>>
argVars == <<caller_hidden, caller_outputs, inputs_given, inputs, max_length,
             teacher_forcing_ratio, rand, use_teacher_forcing, unrolling,
             encoder_hidden, encoder_outputs, gated, draws, heap_hidden, heap_outputs>>
loopVars == <<decoder_hidden, decoder_output, attn, di, symbols, decoder_outputs,
              sequence_symbols, lengths, ret_dict, writes, step_inputs, step_src>>
fwdVars == <<pc, argVars, loopVars>>
gateVars == <<tensor, masked>>
lossVars == <<l1_inputs, acc_loss, norm_term, loss_val, batches, examples, scalars>>
logVars == <<info, sink, log_raised>>
sideVars == <<lossVars, logVars>>
vars == <<decVars, ctlVars, fwdVars, gateVars, sideVars>>

\* ------------------------------------------------- KSParsityDecreaser
\* self.best = 0
InitialBest == 0

\* a variant in which a tie counts as an improvement
IsBadEpochTie(metric_val, b) == metric_val < b

\* metric_val <= self.best
IsBadEpoch(metric_val, b) == metric_val <= b

\* a variant that waits one epoch longer
PatienceReachedLate(nb, p) == nb > p

\* self.num_bad_epochs >= self.patience
PatienceReached(nb, p) == nb >= p

\* a variant that divides by the factor
ShrunkKGrow(f, k) == IntTrunc(f[2] * k, f[1])

\* int(self.factor * self.model.k_sparsity)
ShrunkK(f, k) == IntTrunc(f[1] * k, f[2])

OnEpochEnd(metric_val) ==
  LET bad  == IsBadEpoch(metric_val, best)
      nb1  == IF bad THEN num_bad_epochs + 1 ELSE 0
      fire == PatienceReached(nb1, patience)
  IN  /\ pc \in {"idle", "done"}
      /\ best' = IF bad THEN best ELSE metric_val
      /\ k_sparsity' = IF fire THEN ShrunkK(factor, k_sparsity) ELSE k_sparsity
      /\ num_bad_epochs' = IF fire THEN 0 ELSE nb1
      /\ hist' = Append(hist, [metric |-> metric_val, best0 |-> best, nb0 |-> num_bad_epochs,
                                k0 |-> k_sparsity, counted |-> nb1, fire |-> fire,
                                best1 |-> best', nb1 |-> num_bad_epochs',
                                k1 |-> k_sparsity', logged |-> k_sparsity'])
      /\ UNCHANGED <<factor, patience, use_k_sparsity, k_sparsity_layers, use_attention>>
      /\ UNCHANGED <<fwdVars, gateVars, sideVars>>

\* ------------------------------------------------------- the top-k gate
\* (TopKSetsRaw: a variant without abs(), the k largest signed values)
\* tensor.abs().topk(k)[1] on one row: k distinct positions none of which has
\* a smaller absolute value than a position left out. torch.topk leaves the
\* order among equal values unspecified, so every such set is an outcome.
TopKSetsRaw(r, k) ==
  {S \in SUBSET (DOMAIN r) :
     /\ Cardinality(S) = k
     /\ \A i \in S : \A j \in (DOMAIN r) \ S : r[i] >= r[j]}

TopKSets(r, k) ==
  {S \in SUBSET (DOMAIN r) :
     /\ Cardinality(S) = k
     /\ \A i \in S : \A j \in (DOMAIN r) \ S : Abs(r[i]) >= Abs(r[j])}

\* a variant that scatters zeros into ones
ScatterMaskInverted(r, S) == [i \in DOMAIN r |-> IF i \in S THEN 0 ELSE 1]

\* torch.zeros(shape).scatter_(-1, indices, 1) on one row
ScatterMask(r, S) == [i \in DOMAIN r |-> IF i \in S THEN 1 ELSE 0]

\* tensor * mask on one row
MaskedRow(r, S) == [i \in DOMAIN r |-> r[i] * ScatterMask(r, S)[i]]

\* the choices of topk for every row of a tensor
TopKChoices(t, k) == {c \in [DOMAIN t -> SUBSET Cols] : \A b \in DOMAIN t : c[b] \in TopKSets(t[b], k)}

\* the gated copy of a tensor under one choice of topk
GateTensor(t, c) == [b \in DOMAIN t |-> MaskedRow(t[b], c[b])]

NonZero(r) == {i \in DOMAIN r : r[i] # 0}

\* a variant that multiplies in place (tensor.mul_(mask))
OperandAfterMulInPlace(t, product) == product

\* tensor * mask allocates its product: the contents of the operand after it
OperandAfterMul(t, product) == t

\* ------------------------------------------- the recurrent cell (library)
Squash(x) == ((x + MaxVal) % (2 * MaxVal + 1)) - MaxVal

RowSum(r) == SumTo(r, Len(r))

Embed(tok) == tok + 1

RnnCell(h, x) == [i \in DOMAIN h |-> Squash(h[i] + h[(i % Len(h)) + 1] + x)]

\* the attention context of a query against one example's encoder memory
Attention(q, mem) == Squash(SumTo([i \in DOMAIN q |-> q[i] * mem[i]], Len(q)))

\* function(self.out(...)): a distribution over the vocabulary without ties
OutDist(h, ctx) == [v \in Vocab |-> (v + RowSum(h) + ctx) % VocabSize]

\* one position of forward_step for one example:
\* <<output distribution, new hidden state, attention score (<<>> is None)>>
StepOne(tok, h, mem) ==
  IF use_attention = "pre-rnn"
  THEN LET ctx == Attention(h, mem)
           h1  == RnnCell(h, Embed(tok) + ctx)
       IN  <<OutDist(h1, 0), h1, <<ctx>>>>
  ELSE LET h1  == RnnCell(h, Embed(tok))
           ctx == IF use_attention = "post-rnn" THEN Attention(h1, mem) ELSE 0
       IN  <<OutDist(h1, ctx), h1, IF use_attention = "post-rnn" THEN <<ctx>> ELSE <<>>>>

\* forward_step on the token sequence of one example:
\* <<outputs per position, final hidden state, attention per position>>
RECURSIVE RunCell(_, _, _)
RunCell(toks, h, mem) ==
  IF toks = <<>> THEN <<<<>>, h, <<>>>>
  ELSE The({The({<<(<<s[1]>>) \o r[1], r[2], (<<s[3]>>) \o r[3]>> :
                 r \in {RunCell(Tail(toks), s[2], mem)}}) :
            s \in {StepOne(Head(toks), h, mem)}})

\* self.forward_step(decoder_input, decoder_hidden, encoder_outputs)
ForwardStep(dec_in, hid, mem) ==
  The({[output |-> [b \in Batch |-> r[b][1]],
        hidden |-> [b \in Batch |-> r[b][2]],
        attn   |-> [b \in Batch |-> r[b][3]]] :
       r \in {[b \in Batch |-> RunCell(dec_in[b], hid[b], mem[b])]}})

\* ---------------------------------------------------- DecoderRNN.forward
\* topk(1)[1] of one output distribution
ArgMax(dist) == CHOOSE v \in DOMAIN dist : \A u \in DOMAIN dist : dist[u] <= dist[v]

\* random.random() < teacher_forcing_ratio, both in units of 1 / CoinSteps
UseTeacherForcing(r, ratio) == r < ratio

\* a variant that unrolls for any attention
UnrollingAnyAttention(ua, tf) == ua # "none" \/ ~tf

\* self.use_attention == 'pre-rnn' or not use_teacher_forcing
Unrolling(ua, tf) == ua = "pre-rnn" \/ ~tf

\* a variant without the test
LengthOpenAlways(len, step) == TRUE

\* lengths > step
LengthOpen(len, step) == len > step

\* the state decode() reads and writes
DecodeState ==
  [decoder_outputs |-> decoder_outputs, sequence_symbols |-> sequence_symbols,
   lengths |-> lengths, ret_dict |-> ret_dict, writes |-> writes, symbols |-> symbols]

\* the end of decode(): lengths[update_idx] = len(sequence_symbols)
DecodeLengths(step, outs, rd, syms, ds) ==
  The({[decoder_outputs |-> outs, sequence_symbols |-> Append(ds.sequence_symbols, syms),
        lengths |-> [b \in Batch |-> IF update_idx[b]
                                      THEN Len(ds.sequence_symbols) + 1 ELSE ds.lengths[b]],
        ret_dict |-> rd,
        writes |-> [b \in Batch |-> ds.writes[b] + (IF update_idx[b] THEN 1 ELSE 0)],
        symbols |-> syms] :
       update_idx \in {[b \in Batch |-> LengthOpen(ds.lengths[b], step) /\ syms[b] = eos_id]}})

\* decode(step, step_output, step_attn) on the state ds
Decode(step, step_output, step_attn, ds) ==
  The({DecodeLengths(step, outs,
                     IF use_attention # "none"
                     THEN [ds.ret_dict EXCEPT !["attention_score"] = Append(@, step_attn)]
                     ELSE ds.ret_dict,
                     [b \in Batch |-> ArgMax(outs[Len(outs)][b])], ds) :
       outs \in {Append(ds.decoder_outputs, step_output)}})

\* a variant that feeds the targets at step 0 only
FromTargetsFirstOnly(i, tf) == i = 0

\* whether step i of the unrolled loop takes its input from the targets
FromTargets(i, tf) == i = 0 \/ tf

\* one iteration of the unrolled loop on the state st (a DecodeState with the
\* hidden state and the history of step inputs)
UnrollBody(i, tf, inp, mem, st) ==
  The({The({The({[decoder_outputs |-> d.decoder_outputs,
                  sequence_symbols |-> d.sequence_symbols,
                  lengths |-> d.lengths, ret_dict |-> d.ret_dict, writes |-> d.writes,
                  symbols |-> d.symbols, decoder_hidden |-> fs.hidden,
                  step_inputs |-> Append(st.step_inputs, decoder_input),
                  step_src |-> Append(st.step_src,
                                      IF FromTargets(i, tf) THEN "targets" ELSE "symbols")] :
                 d \in {Decode(i, [b \in Batch |-> fs.output[b][1]],
                                  [b \in Batch |-> fs.attn[b][1]], st)}}) :
            fs \in {ForwardStep(decoder_input, st.decoder_hidden, mem)}}) :
       decoder_input \in {IF FromTargets(i, tf)
                           THEN [b \in Batch |-> <<inp[b][i + 1]>>]
                           ELSE [b \in Batch |-> <<st.symbols[b]>>]}})

\* the unrolled loop from step i to step n - 1
RECURSIVE UnrollRun(_, _, _, _, _, _)
UnrollRun(i, n, tf, inp, mem, st) ==
  IF i >= n THEN st
  ELSE The({UnrollRun(i + 1, n, tf, inp, mem, nx) : nx \in {UnrollBody(i, tf, inp, mem, st)}})

\* a variant that drops the first token instead: inputs[:, 1:]
BatchedInputShifted(inp) == [b \in Batch |-> SubSeq(inp[b], 2, Len(inp[b]))]

\* inputs[:, :-1]
BatchedInput(inp) == [b \in Batch |-> SubSeq(inp[b], 1, Len(inp[b]) - 1)]

LoopState ==
  [decoder_outputs |-> decoder_outputs, sequence_symbols |-> sequence_symbols,
   lengths |-> lengths, ret_dict |-> ret_dict, writes |-> writes, symbols |-> symbols,
   decoder_hidden |-> decoder_hidden, step_inputs |-> step_inputs, step_src |-> step_src]

\* the first part of forward, up to the choice of the mode. ch, co are the
\* encoder's tensors, given, inp the targets (given = FALSE: inputs is None),
\* ratio the teacher forcing ratio and r the value random.random() returns.
\* _validate_args raises when inputs is None and the ratio is positive; topk
\* raises when k_sparsity exceeds the width: the call then ends, with no
\* state of the decoder changed.
ForwardCall(given, inp, ch, co, ratio, r) ==
  /\ pc \in {"idle", "done"}
  /\ given \/ ratio = 0
  /\ caller_hidden' = ch
  /\ caller_outputs' = co
  /\ inputs_given' = given
  /\ inputs' = IF given THEN inp ELSE [b \in Batch |-> <<sos_id>>]
  /\ max_length' = IF given THEN Len(inp[1]) - 1 ELSE MaxLen
  /\ teacher_forcing_ratio' = ratio
  /\ rand' = r
  /\ draws' = 1
  /\ use_teacher_forcing' = UseTeacherForcing(r, ratio)
  /\ unrolling' = Unrolling(use_attention, use_teacher_forcing')
  /\ IF use_k_sparsity /\ "encoder_hidden" \in k_sparsity_layers[1]
     THEN \E c \in TopKChoices(ch, k_sparsity) :
            /\ encoder_hidden' = GateTensor(ch, c)
            /\ encoder_outputs' = co
            /\ heap_hidden' = OperandAfterMul(ch, encoder_hidden')
            /\ heap_outputs' = co
            /\ gated' = <<"encoder_hidden">>
     ELSE IF use_k_sparsity /\ "encoder_outputs" \in k_sparsity_layers[1]
     THEN \E c \in TopKChoices(co, k_sparsity) :
            /\ encoder_hidden' = ch
            /\ encoder_outputs' = GateTensor(co, c)
            /\ heap_hidden' = ch
            /\ heap_outputs' = OperandAfterMul(co, encoder_outputs')
            /\ gated' = <<"encoder_outputs">>
     ELSE /\ encoder_hidden' = ch
          /\ encoder_outputs' = co
          /\ heap_hidden' = ch
          /\ heap_outputs' = co
          /\ gated' = <<>>
  /\ decoder_hidden' = encoder_hidden'
  /\ ret_dict' = IF use_attention # "none"
                 THEN [encoder_hidden |-> heap_hidden', encoder_outputs |-> heap_outputs',
                       attention_score |-> <<>>]
                 ELSE [encoder_hidden |-> heap_hidden', encoder_outputs |-> heap_outputs']
  /\ decoder_outputs' = <<>>
  /\ sequence_symbols' = <<>>
  /\ lengths' = [b \in Batch |-> max_length']
  /\ writes' = [b \in Batch |-> 0]
  /\ symbols' = <<>>
  /\ decoder_output' = <<>>
  /\ attn' = <<>>
  /\ step_inputs' = <<>>
  /\ step_src' = <<>>
  /\ di' = 0
  /\ pc' = IF unrolling' THEN "unroll" ELSE "batched"
  /\ UNCHANGED <<decVars, ctlVars, gateVars, sideVars>>

\* one iteration of the unrolled loop
UnrollStep ==
  /\ pc = "unroll"
  /\ di < max_length
  /\ \E st \in {UnrollBody(di, use_teacher_forcing, inputs, encoder_outputs, LoopState)} :
         /\ decoder_outputs' = st.decoder_outputs
         /\ sequence_symbols' = st.sequence_symbols
         /\ lengths' = st.lengths
         /\ ret_dict' = st.ret_dict
         /\ writes' = st.writes
         /\ symbols' = st.symbols
         /\ decoder_hidden' = st.decoder_hidden
         /\ step_inputs' = st.step_inputs
         /\ step_src' = st.step_src
  /\ di' = di + 1
  /\ UNCHANGED <<pc, decoder_output, attn, argVars, decVars, ctlVars, gateVars, sideVars>>

\* the batched branch up to its loop: one forward_step on inputs[:, :-1]
BatchedPass ==
  /\ pc = "batched"
  /\ \E fs \in {ForwardStep(BatchedInput(inputs), decoder_hidden, encoder_outputs)} :
         /\ decoder_output' = fs.output
         /\ decoder_hidden' = fs.hidden
         /\ attn' = fs.attn
  /\ pc' = "decode"
  /\ UNCHANGED <<di, symbols, decoder_outputs, sequence_symbols, lengths, ret_dict,
                 writes, step_inputs, step_src, argVars, decVars, ctlVars, gateVars, sideVars>>

\* one iteration of the loop of the batched branch
DecodeStep ==
  /\ pc = "decode"
  /\ di < Len(decoder_output[1])
  /\ LET step_output == [b \in Batch |-> decoder_output[b][di + 1]]
         step_attn   == [b \in Batch |-> attn[b][di + 1]]
     IN  \E d \in {Decode(di, step_output, step_attn, DecodeState)} :
         /\ decoder_outputs' = d.decoder_outputs
         /\ sequence_symbols' = d.sequence_symbols
         /\ lengths' = d.lengths
         /\ ret_dict' = d.ret_dict
         /\ writes' = d.writes
         /\ symbols' = symbols
  /\ di' = di + 1
  /\ UNCHANGED <<pc, decoder_hidden, decoder_output, attn, step_inputs, step_src,
                 argVars, decVars, ctlVars, gateVars, sideVars>>

\* ret_dict[KEY_SEQUENCE], ret_dict[KEY_LENGTH] and the return
Return ==
  /\ \/ pc = "unroll" /\ di >= max_length
     \/ pc = "decode" /\ di >= Len(decoder_output[1])
  /\ ret_dict' = ret_dict @@ [sequence |-> sequence_symbols, length |-> lengths]
  /\ pc' = "done"
  /\ UNCHANGED <<decoder_hidden, decoder_output, attn, di, symbols, decoder_outputs,
                 sequence_symbols, lengths, writes, step_inputs, step_src,
                 argVars, decVars, ctlVars, gateVars, sideVars>>

\* ----------------------------------------------------------------- L1Loss
\* tensor.abs().sum() of a tensor of one, two or three dimensions
AbsSum1(r) == SumTo([c \in DOMAIN r |-> Abs(r[c])], Len(r))
AbsSum2(m) == SumTo([j \in DOMAIN m |-> AbsSum1(m[j])], Len(m))
AbsSum3(t) == SumTo([i \in DOMAIN t |-> AbsSum2(t[i])], Len(t))

\* the number of scalar entries of a tensor of three dimensions
Numel3(t) == SumTo([i \in DOMAIN t |-> SumTo([j \in DOMAIN t[i] |-> Len(t[i][j])], Len(t[i]))],
                   Len(t))

\* self.acc_loss = 0; self.norm_term = 0
NewL1Loss(input_name) ==
  /\ l1_inputs = input_name
  /\ acc_loss = [type |-> "int", val |-> 0]
  /\ norm_term = 0
  /\ loss_val = <<>>
  /\ batches = 0 /\ examples = 0 /\ scalars = 0

\* batch_size = outputs.size(0), the increment of norm_term for a tensor
NormIncrement(outputs) == Len(outputs)

\* eval_batch(decoder_outputs, other, target_variable): other maps
\* 'encoder_hidden' to a tensor (layers x directions, batch, hidden),
\* 'encoder_outputs' to a tensor (batch, source length, hidden) and
\* 'model_parameters' to a list of tensors
EvalBatch(other) ==
  \E outputs \in {other[l1_inputs]} :
    /\ IF l1_inputs = "model_parameters"
       THEN /\ acc_loss' = IF outputs = <<>> THEN acc_loss
                           ELSE [type |-> "tensor",
                                 val |-> acc_loss.val +
                                         SumTo([q \in DOMAIN outputs |-> AbsSum1(outputs[q])],
                                               Len(outputs))]
            /\ norm_term' = norm_term + Len(outputs)
            /\ examples' = examples + Len(outputs)
            /\ scalars' = scalars + SumTo([q \in DOMAIN outputs |-> Len(outputs[q])], Len(outputs))
       ELSE /\ acc_loss' = [type |-> "tensor", val |-> acc_loss.val + AbsSum3(outputs)]
            /\ norm_term' = norm_term + NormIncrement(outputs)
            /\ examples' = examples + (IF l1_inputs = "encoder_hidden"
                                       THEN Len(outputs[1]) ELSE Len(outputs))
            /\ scalars' = scalars + Numel3(outputs)
    /\ batches' = batches + 1
    /\ loss_val' = <<>>
    /\ UNCHANGED <<l1_inputs, decVars, ctlVars, fwdVars, gateVars, logVars>>

\* get_loss(): 0 when acc_loss is still the int, else acc_loss.item() /
\* norm_term, a fraction <<"value", numerator, denominator>>; Python raises
\* ZeroDivisionError for a zero norm_term
GetLoss ==
  /\ loss_val' = IF acc_loss.type = "int" THEN <<"value", 0, 1>>
                 ELSE IF norm_term = 0 THEN <<"ZeroDivisionError">>
                 ELSE <<"value", acc_loss.val, norm_term>>
  /\ UNCHANGED <<l1_inputs, acc_loss, norm_term, batches, examples, scalars>>
  /\ UNCHANGED <<decVars, ctlVars, fwdVars, gateVars, logVars>>

\* ------------------------------------------------------------ CometLogger
\* metrics.update({key: val})
Put(m, key, val) == [x \in (DOMAIN m) \cup {key} |-> IF x = key THEN val ELSE m[x]]

\* '%s_%s' % (prefix, log_name)
Key(prefix, log_name) == prefix \o "_" \o log_name

\* monitor_path.split('/')[-1].split('.')[0], a path being the sequence of its
\* components and a component the sequence of its dot-separated parts
MonitorName(monitor_path) == monitor_path[Len(monitor_path)][1]

\* a loop `for obj in objs: metrics.update({'%s_%s' % (prefix, obj.log_name):
\* value of obj})` from position i on
RECURSIVE UpdateOwn(_, _, _, _)
UpdateOwn(m, prefix, objs, i) ==
  IF i > Len(objs) THEN m
  ELSE UpdateOwn(Put(m, Key(prefix, objs[i].log_name), objs[i].val), prefix, objs, i + 1)

\* the loop of lines 31-34: the key is built from metric, the variable the
\* earlier loops left bound, the value is loss.get_loss()
RECURSIVE UpdateStale(_, _, _, _, _)
UpdateStale(m, prefix, metric, objs, i) ==
  IF i > Len(objs) THEN m
  ELSE UpdateStale(Put(m, Key(prefix, metric.log_name), objs[i].val), prefix, metric, objs, i + 1)

\* the binding of the loop variable metric after a loop over objs
\* (<<>>: unbound)
Bound(metric, objs) == IF objs = <<>> THEN metric ELSE <<objs[Len(objs)]>>

\* lines 14-22 for the splits from position i on: <<metrics, metric>>
RECURSIVE SplitLoops(_, _, _, _)
SplitLoops(m, metric, inf, i) ==
  IF i > 2 THEN <<m, metric>>
  ELSE LET split == <<"train", "eval">>[i]
           ms == IF i = 1 THEN inf.train_metrics ELSE inf.eval_metrics
           ls == IF i = 1 THEN inf.train_losses ELSE inf.eval_losses
       IN  SplitLoops(UpdateOwn(UpdateOwn(m, split, ms, 1), split, ls, 1),
                      Bound(metric, ms), inf, i + 1)

\* lines 23-28 for the monitors from position i on: <<metrics, metric>>
RECURSIVE MonitorMetricLoops(_, _, _, _)
MonitorMetricLoops(m, metric, mons, i) ==
  IF i > Len(mons) THEN <<m, metric>>
  ELSE MonitorMetricLoops(UpdateOwn(m, MonitorName(mons[i][1]), mons[i][2], 1),
                          Bound(metric, mons[i][2]), mons, i + 1)

\* lines 29-34 for the monitors from position i on, metric being bound
RECURSIVE MonitorLossLoops(_, _, _, _)
MonitorLossLoops(m, metric, mons, i) ==
  IF i > Len(mons) THEN m
  ELSE MonitorLossLoops(UpdateStale(m, MonitorName(mons[i][1]), metric, mons[i][2], 1),
                        metric, mons, i + 1)

\* CometLogger.on_epoch_end(info): the mapping is sent unless line 33 reads
\* metric before any loop bound it (UnboundLocalError)
CometOnEpochEnd(inf) ==
  /\ pc \in {"idle", "done"}
  /\ info' = <<inf>>
  /\ \E a \in {SplitLoops([x \in {"epoch"} |-> inf.epoch], <<>>, inf, 1)} :
     \E b \in {MonitorMetricLoops(a[1], a[2], inf.monitor_metrics, 1)} :
       IF b[2] = <<>> /\ \E i \in DOMAIN inf.monitor_losses : inf.monitor_losses[i][2] # <<>>
       THEN /\ sink' = <<>>
            /\ log_raised' = TRUE
       ELSE /\ sink' = <<MonitorLossLoops(b[1], IF b[2] = <<>> THEN <<>> ELSE b[2][1],
                                          inf.monitor_losses, 1)>>
            /\ log_raised' = FALSE
  /\ UNCHANGED <<decVars, ctlVars, fwdVars, gateVars, lossVars>>

\* ------------------------------------------------------------ the inputs
\* target sequences: the start symbol, then MaxLen - 1 tokens that are the end
\* symbol or the last word of the vocabulary, then the end symbol
Targets == {s \in [1..(MaxLen + 1) -> {sos_id, eos_id, VocabSize - 1}] :
              /\ s[1] = sos_id
              /\ s[MaxLen + 1] = eos_id
              /\ \A i \in 2..MaxLen : s[i] # sos_id}

\* the encoder's tensors of a call: one row per example
EncTensor(s) == [b \in Batch |-> [i \in Cols |-> Squash(s + b * i)]]

Call(targetSets) ==
  \E given \in BOOLEAN, inp \in [Batch -> targetSets], e \in 0..(PoolSize - 1),
     ratio \in 0..CoinSteps, r \in 0..(CoinSteps - 1) :
       ForwardCall(given, inp, EncTensor(e), EncTensor(e + 1), ratio, r)

\* the locals of forward before any call
IdleLocals ==
  /\ caller_hidden = <<>> /\ caller_outputs = <<>> /\ inputs_given = FALSE
  /\ inputs = <<>> /\ max_length = 0 /\ teacher_forcing_ratio = 0 /\ rand = 0
  /\ use_teacher_forcing = FALSE /\ unrolling = FALSE
  /\ encoder_hidden = <<>> /\ encoder_outputs = <<>> /\ gated = <<>> /\ draws = 0
  /\ heap_hidden = <<>> /\ heap_outputs = <<>>
  /\ decoder_hidden = <<>> /\ decoder_output = <<>> /\ attn = <<>> /\ di = 0
  /\ symbols = <<>> /\ decoder_outputs = <<>> /\ sequence_symbols = <<>>
  /\ lengths = <<>> /\ ret_dict = <<>> /\ writes = <<>>
  /\ step_inputs = <<>> /\ step_src = <<>>

IdleForward == pc = "idle" /\ IdleLocals

IdleGate == tensor = <<>> /\ masked = <<>>

IdleLog == info = <<>> /\ sink = <<>> /\ log_raised = FALSE

IdleSide == NewL1Loss("encoder_hidden") /\ IdleLog

\* a tensor of shape (d0, d1, Width)
Tensor3(d0, d1, s) == [i \in 1..d0 |-> [j \in 1..d1 |-> [c \in Cols |-> Squash(s + i + j * c)]]]

\* what Seq2seq.forward returns in ret_dict for a batch of b examples: the
\* decoder's passthrough of the encoder's tensors, and the model's parameters
Other(ld, b, sl, np, s) ==
  [encoder_hidden |-> Tensor3(ld, b, s),
   encoder_outputs |-> Tensor3(b, sl, s + 1),
   model_parameters |-> [q \in 1..np |-> [c \in 1..q |-> Squash(s + q + c)]]]

\* the inputs --l1_loss_inputs accepts
L1Inputs == {"encoder_hidden", "encoder_outputs", "model_parameters"}

\* the configurations DecoderRNN.__init__ accepts: the defaults (no
\* sparsity, k_sparsity_layers None) or sparsity with a list of layer names
Constructed ==
  /\ use_attention \in {"none", "pre-rnn", "post-rnn"}
  /\ \/ use_k_sparsity = FALSE /\ k_sparsity_layers = <<>>
     \/ /\ use_k_sparsity = TRUE
        /\ k_sparsity_layers \in {<<S>> : S \in SUBSET {"encoder_hidden", "encoder_outputs"}}
  /\ k_sparsity \in 1..MaxK

\* the gate on encoder_hidden or none, no attention
ConstructedPlain ==
  /\ use_attention = "none"
  /\ \/ use_k_sparsity = FALSE /\ k_sparsity_layers = <<>>
     \/ use_k_sparsity = TRUE /\ k_sparsity_layers = <<{"encoder_hidden"}>>

Controller ==
  /\ factor \in Factors
  /\ patience \in 0..MaxPatience
  /\ best = InitialBest
  /\ num_bad_epochs = 0
  /\ hist = <<>>

\* the controller as train_model_machine.py constructs it: the defaults
ControllerDefault ==
  /\ factor = <<9, 10>>
  /\ patience = DefaultPatience
  /\ best = InitialBest
  /\ num_bad_epochs = 0
  /\ hist = <<>>

\* ------------------------------------------------------ specifications
\* the one target sequence of the calls of a training run: words, then the
\* end symbol
RunTargets == {[i \in 1..(MaxLen + 1) |->
                 IF i = 1 THEN sos_id ELSE IF i = MaxLen + 1 THEN eos_id ELSE VocabSize - 1]}

\* a forward call of a training run: teacher forcing for all of it or none
RunCall ==
  \E inp \in [Batch -> RunTargets], ratio \in {0, CoinSteps} :
    ForwardCall(TRUE, inp, EncTensor(0), EncTensor(1), ratio, 0)

\* a training run: forward calls, and the controller at the epoch ends
Init == ConstructedPlain /\ k_sparsity \in 1..MaxK /\ Controller /\ IdleForward /\ IdleGate /\ IdleSide

Next ==
  \/ Len(hist) < RunEpochs /\ \E m \in 0..MaxMetric : OnEpochEnd(m)
  \/ RunCall
  \/ UnrollStep
  \/ BatchedPass
  \/ DecodeStep
  \/ Return

Spec == Init /\ [][Next]_vars

\* the controller over the epoch ends of a run, on a decoder constructed with
\* a small initial_k_sparsity or the default one
InitCtl ==
  /\ ConstructedPlain /\ use_k_sparsity
  /\ k_sparsity \in (1..MaxK) \cup {DefaultK}
  /\ Controller /\ IdleForward /\ IdleGate /\ IdleSide

NextCtl == Len(hist) < MaxEpochs /\ \E m \in 0..MaxMetric : OnEpochEnd(m)

SpecCtl == InitCtl /\ [][NextCtl]_vars

\* one forward call on every batch of targets, the controller as constructed
InitFwd == Constructed /\ ControllerDefault /\ IdleForward /\ IdleGate /\ IdleSide

NextFwd ==
  \/ pc = "idle" /\ Call(Targets)
  \/ UnrollStep
  \/ BatchedPass
  \/ DecodeStep
  \/ Return

SpecFwd == InitFwd /\ [][NextFwd]_vars

\* the gate of forward (lines 135-138) on one row, for every k up to its width
GateApply(k) ==
  /\ k \notin DOMAIN masked
  /\ \E c \in TopKChoices(tensor, k) : masked' = masked @@ (k :> GateTensor(tensor, c))
  /\ UNCHANGED <<tensor, decVars, ctlVars, fwdVars, sideVars>>

InitGate ==
  /\ ConstructedPlain /\ use_k_sparsity /\ k_sparsity = 1
  /\ ControllerDefault /\ IdleForward /\ IdleSide
  /\ tensor \in {<<r>> : r \in Rows}
  /\ masked = <<>>

NextGate == \E k \in Cols : GateApply(k)

SpecGate == InitGate /\ [][NextGate]_vars

\* the values argparse yields for --k_sparsity_layers (nargs='*', choices):
\* None when the option is absent, else the list of the names given, which
\* is empty when the option is given with no names
ParsedLayers == {<<>>} \cup {<<S>> : S \in SUBSET {"encoder_hidden", "encoder_outputs"}}

\* DecoderRNN.__init__: raises ValueError when sparsity is enabled and
\* k_sparsity_layers is None, else stores its arguments
DecoderRNNInit(ua, use, k, layers) ==
  /\ pc = "new"
  /\ IF use /\ layers = <<>>
     THEN /\ pc' = "raised"
          /\ UNCHANGED decVars
     ELSE /\ pc' = "idle"
          /\ use_k_sparsity' = use
          /\ k_sparsity' = k
          /\ k_sparsity_layers' = layers
          /\ use_attention' = ua
  /\ UNCHANGED <<argVars, loopVars, ctlVars, gateVars, sideVars>>

\* the decoder as train_model_machine.py constructs it from the command line
Construct ==
  \E ua \in {"none", "pre-rnn", "post-rnn"}, use \in BOOLEAN, k \in 1..MaxK,
     layers \in ParsedLayers : DecoderRNNInit(ua, use, k, layers)

\* construction from the command line, then forward calls
InitNew ==
  /\ pc = "new"
  /\ use_k_sparsity = FALSE /\ k_sparsity = 0 /\ k_sparsity_layers = <<>>
  /\ use_attention = "none"
  /\ ControllerDefault /\ IdleLocals /\ IdleGate /\ IdleSide

NextNew ==
  \/ Construct
  \/ RunCall
  \/ UnrollStep
  \/ BatchedPass
  \/ DecodeStep
  \/ Return

SpecNew == InitNew /\ [][NextNew]_vars

\* self.log_name = 'l1_%s_loss' % (input_name)
L1LogName(input_name) == "l1_" \o input_name \o "_loss"

\* the metrics and the losses a run tracks, for every split and monitor:
\* the metrics chosen by --metrics ('seq_acc' among them, the one
\* KSParsityDecreaser reads), the NLLLoss and the L1Loss objects
TrackedMetrics == {<<"seq_acc">>, <<"word_acc", "seq_acc">>}
TrackedLosses == {<<"nll_loss">>, <<"nll_loss", L1LogName("encoder_hidden")>>}

\* the paths of the monitor datasets
MonitorPaths ==
  <<(<<(<<"data">>), (<<"test1", "tsv">>)>>), (<<(<<"data">>), (<<"test2", "tsv">>)>>),
    (<<(<<"data">>), (<<"test3", "tsv">>)>>), (<<(<<"data">>), (<<"test4", "tsv">>)>>)>>

\* the objects of one split with their values at the epoch end
Tracked(names, off, s) ==
  [i \in DOMAIN names |-> [log_name |-> names[i], val |-> (s + off + i) % (MaxMetric + 1)]]

\* the info the trainer hands to the callbacks at an epoch end
EpochInfo(epoch, ms, ls, n, s) ==
  [epoch |-> epoch,
   train_metrics |-> Tracked(ms, 0, s), train_losses |-> Tracked(ls, 2, s),
   eval_metrics |-> Tracked(ms, 1, s), eval_losses |-> Tracked(ls, 3, s),
   monitor_metrics |-> [q \in 1..n |-> <<MonitorPaths[q], Tracked(ms, q + 1, s)>>],
   monitor_losses |-> [q \in 1..n |-> <<MonitorPaths[q], Tracked(ls, q + 3, s)>>]]

\* the logger over the epoch ends of a run
InitLog ==
  /\ ConstructedPlain /\ use_k_sparsity /\ k_sparsity = 1
  /\ ControllerDefault /\ IdleForward /\ IdleGate /\ IdleSide

NextLog ==
  \E epoch \in 1..MaxEpochs, ms \in TrackedMetrics, ls \in TrackedLosses,
     n \in 0..(IF MaxMonitors < 4 THEN MaxMonitors ELSE 4), s \in 0..MaxMetric :
    /\ epoch = IF info = <<>> THEN 1 ELSE info[1].epoch + 1
    /\ CometOnEpochEnd(EpochInfo(epoch, ms, ls, n, s))

SpecLog == InitLog /\ [][NextLog]_vars

\* one L1Loss over the batches of an evaluation pass, empty ones included
InitLoss ==
  /\ ConstructedPlain /\ use_k_sparsity /\ k_sparsity = 1
  /\ ControllerDefault /\ IdleForward /\ IdleGate /\ IdleLog
  /\ \E name \in L1Inputs : NewL1Loss(name)

NextLoss ==
  \/ /\ batches < MaxBatches
     /\ \E ld \in 1..MaxLayers, b \in 0..BatchSize, sl \in 1..MaxSrcLen, np \in 0..MaxParams,
           s \in 0..(PoolSize - 1) : EvalBatch(Other(ld, b, sl, np, s))
  \/ loss_val = <<>> /\ GetLoss

SpecLoss == InitLoss /\ [][NextLoss]_vars

\* one L1Loss over the batches of a training run: every batch has examples,
\* the model has parameters
NextPass ==
  \/ /\ batches < MaxBatches
     /\ \E ld \in 1..MaxLayers, b \in 1..BatchSize, sl \in 1..MaxSrcLen, np \in 1..MaxParams,
           s \in 0..(PoolSize - 1) : EvalBatch(Other(ld, b, sl, np, s))
  \/ loss_val = <<>> /\ GetLoss

SpecPass == InitLoss /\ [][NextPass]_vars

\* ------------------------------------------------------------- the claims
MinOf(S) == CHOOSE m \in S : \A n \in S : m <= n
MaxOf(S) == CHOOSE m \in S : \A n \in S : m >= n

ForwardRunning == pc \notin {"idle", "done"}

\* C1: with a shrink factor in (0, 1], no step of a run increases k_sparsity:
\* a step of a forward call leaves it unchanged, an on_epoch_end leaves it
\* equal or smaller.
C1_KNeverIncreases ==
  [][(factor[1] > 0 /\ factor[1] <= factor[2]) =>
       /\ k_sparsity' <= k_sparsity
       /\ (ForwardRunning \/ ForwardRunning') => k_sparsity' = k_sparsity]_vars

\* C1 witness: a forward call returned after an epoch end that shrank k.
C1_Witness ==
  /\ pc = "done"
  /\ use_k_sparsity
  /\ \E i \in 1..Len(hist) : hist[i].k1 < hist[i].k0

\* the best value before epoch end i, from the metric values alone
RunningBest(i) == MaxOf({InitialBest} \cup {hist[j].metric : j \in 1..(i - 1)})

\* the number of consecutive epoch ends up to i without strict improvement
\* since the last improvement or the last shrink
RECURSIVE Streak(_)
Streak(i) ==
  IF i = 0 THEN 0
  ELSE IF hist[i].metric > RunningBest(i) THEN 0
  ELSE 1 + (IF i > 1 /\ hist[i - 1].fire THEN 0 ELSE Streak(i - 1))

\* C2: for patience P >= 1, an epoch end changes k_sparsity only when it is
\* the P-th consecutive one without strict improvement since the last
\* improvement or shrink; at exactly those epoch ends k becomes
\* int(factor * k) and num_bad_epochs 0, at all others k stays.
C2_ShrinkAtPatience ==
  patience >= 1 =>
    \A i \in 1..Len(hist) :
      LET e == hist[i] IN
        /\ e.k1 # e.k0 => Streak(i) = patience
        /\ Streak(i) = patience =>
             /\ e.fire
             /\ e.k1 * factor[2] <= factor[1] * e.k0
             /\ factor[1] * e.k0 < (e.k1 + 1) * factor[2]
             /\ e.nb1 = 0
        /\ Streak(i) # patience => ~e.fire /\ e.k1 = e.k0

\* C2 witness: the run of the example: patience 3, factor 0.5, k 100, a first
\* epoch that improves and three that do not; k is 100 through epoch index 2
\* and 50, with the counter 0, at epoch index 3.
C2_Witness ==
  /\ patience = 3 /\ factor = <<1, 2>>
  /\ Len(hist) = 4
  /\ hist[1].metric = 3 /\ hist[2].metric = 2 /\ hist[3].metric = 1 /\ hist[4].metric = 0
  /\ hist[1].k0 = 100 /\ hist[3].k1 = 100
  /\ k_sparsity = 50 /\ num_bad_epochs = 0

\* C3 as claimed: with a shrink factor in (0, 1), k_sparsity is a positive
\* integer in every state.
C3_KPositive == factor[1] < factor[2] => k_sparsity >= 1

\* C4 as claimed: a metric value above the stored best sets best to it and
\* the counter to 0 and causes no shrink at that epoch end; a value equal to
\* or below best leaves best and adds one to the counter; best never
\* decreases.
C4_ImprovementNeverShrinks ==
  \A i \in 1..Len(hist) :
    LET e == hist[i] IN
      /\ e.metric > e.best0 => e.best1 = e.metric /\ e.counted = 0 /\ e.nb1 = 0 /\ ~e.fire
      /\ e.metric <= e.best0 => e.best1 = e.best0 /\ e.counted = e.nb0 + 1
      /\ e.best1 >= e.best0

\* C4 as amended: the same, with "no shrink at that epoch end" for a
\* patience of at least 1.
C4_ImprovementNoShrinkWithPatience ==
  \A i \in 1..Len(hist) :
    LET e == hist[i] IN
      /\ e.metric > e.best0 =>
           /\ e.best1 = e.metric /\ e.counted = 0 /\ e.nb1 = 0
           /\ patience >= 1 => ~e.fire
      /\ e.metric <= e.best0 => e.best1 = e.best0 /\ e.counted = e.nb0 + 1
      /\ e.best1 >= e.best0

\* C4 witness: an improvement, then a tie, with a patience that the tie does
\* not reach.
C4_Witness ==
  /\ patience >= 2
  /\ Len(hist) >= 3
  /\ hist[2].metric > hist[2].best0 /\ hist[2].nb0 = 1
  /\ hist[3].metric = hist[3].best0 /\ hist[3].counted = 1

\* C5 as claimed: the first epoch end after construction counts as an
\* improvement for every metric value, the lowest one included.
C5_FirstEpochImproves ==
  Len(hist) >= 1 =>
    /\ hist[1].best0 < hist[1].metric
    /\ hist[1].best1 = hist[1].metric
    /\ hist[1].counted = 0 /\ hist[1].nb1 = 0

\* the steps of the call so far at which example b emitted the end symbol
EosSteps(b) == {n \in 1..Len(sequence_symbols) : sequence_symbols[n][b] = eos_id}

\* C6: at every point of a forward call, the length of an example that has
\* emitted the end symbol is the number of its first such step (p + 1) and
\* was written once; the length of any other example is the placeholder
\* max_length and was never written.
C6_LengthIsFirstEos ==
  pc # "idle" =>
    \A b \in Batch :
      IF EosSteps(b) = {}
      THEN lengths[b] = max_length /\ writes[b] = 0
      ELSE lengths[b] = MinOf(EosSteps(b)) /\ writes[b] = 1 /\ lengths[b] <= max_length

\* C6 witness: a call has returned in which one example emitted the end
\* symbol at two steps or more, the first not the last step, and another
\* never did.
C6_Witness ==
  /\ pc = "done"
  /\ \E b \in Batch : Cardinality(EosSteps(b)) >= 2 /\ lengths[b] < max_length
  /\ \E b \in Batch : EosSteps(b) = {}

LoopStart ==
  [decoder_outputs |-> <<>>, sequence_symbols |-> <<>>,
   lengths |-> [b \in Batch |-> max_length],
   ret_dict |-> IF use_attention # "none"
                THEN [encoder_hidden |-> caller_hidden, encoder_outputs |-> caller_outputs,
                      attention_score |-> <<>>]
                ELSE [encoder_hidden |-> caller_hidden, encoder_outputs |-> caller_outputs],
   writes |-> [b \in Batch |-> 0], symbols |-> <<>>,
   decoder_hidden |-> encoder_hidden, step_inputs |-> <<>>, step_src |-> <<>>]

\* the unrolled loop of the call, run with teacher forcing on the same inputs
Unrolled == UnrollRun(0, max_length, TRUE, inputs, encoder_outputs, LoopStart)

\* C8: a call that ran the batched pass returns what the unrolled loop with
\* teacher forcing yields on the same inputs: as many positions, the same
\* output distributions and symbols at every position, the same lengths (and
\* the same attention scores and final hidden state).
C8_BatchedEqualsUnrolled ==
  (pc = "done" /\ ~unrolling) =>
    \A u \in {Unrolled} :
      /\ Len(decoder_outputs) = Len(u.decoder_outputs)
      /\ decoder_outputs = u.decoder_outputs
      /\ sequence_symbols = u.sequence_symbols
      /\ lengths = u.lengths
      /\ ret_dict.length = u.lengths
      /\ ret_dict.sequence = u.sequence_symbols
      /\ decoder_hidden = u.decoder_hidden
      /\ use_attention = "post-rnn" => ret_dict.attention_score = u.ret_dict.attention_score

\* C8 witness: a batched pass with 'post-rnn' attention has returned, with
\* examples whose targets and lengths differ.
C8_Witness ==
  /\ pc = "done" /\ ~unrolling
  /\ use_attention = "post-rnn"
  /\ Len(decoder_outputs) = MaxLen
  /\ \E b, c \in Batch : inputs[b] # inputs[c] /\ lengths[b] # lengths[c]

\* the n-th largest absolute value of a row
NthAbs(r, n) ==
  CHOOSE v \in {Abs(r[i]) : i \in DOMAIN r} :
    /\ Cardinality({i \in DOMAIN r : Abs(r[i]) > v}) < n
    /\ Cardinality({i \in DOMAIN r : Abs(r[i]) >= v}) >= n

\* C9: for every row and every k up to its width, the gated row has at most k
\* non-zero entries, exactly k when the row has at least k; a retained entry
\* keeps its value, and no zeroed entry is larger in absolute value than a
\* retained one.
C9_GateKeepsTopK ==
  \A k \in DOMAIN masked : \A b \in DOMAIN tensor :
    LET x == tensor[b]
        y == masked[k][b]
    IN  /\ DOMAIN y = DOMAIN x
        /\ Cardinality(NonZero(y)) <= k
        /\ Cardinality(NonZero(x)) >= k => Cardinality(NonZero(y)) = k
        /\ \A i \in DOMAIN x : y[i] # 0 => y[i] = x[i]
        /\ \A i, j \in DOMAIN x : (y[i] = 0 /\ y[j] # 0) => Abs(x[i]) <= Abs(x[j])

\* C9 witness: the gate has kept exactly k entries, a negative one among
\* them, of a row with more than k non-zero entries.
C9_Witness ==
  \E k \in DOMAIN masked : \E b \in DOMAIN tensor :
    /\ Cardinality(NonZero(tensor[b])) > k
    /\ Cardinality(NonZero(masked[k][b])) = k
    /\ \E i \in Cols : tensor[b][i] < 0 /\ masked[k][b][i] = tensor[b][i]

TieAcross(r, k2, k1) ==
  /\ k1 < Len(r)
  /\ NthAbs(r, k2) = NthAbs(r, k1 + 1)
  /\ NthAbs(r, k2) # 0

C11_SparsityAlwaysGates ==
  (use_k_sparsity /\ pc \notin {"new", "raised"}) =>
    /\ k_sparsity_layers # <<>>
    /\ pc # "idle" => (k_sparsity_layers[1] # {} /\ gated # <<>>)

\* C15: from the gate to the return of a forward call the caller's two
\* tensors and the ret_dict entries 'encoder_hidden' / 'encoder_outputs'
\* hold the values received; without sparsity the call works on those
\* values, with sparsity the gated tensor is another value wherever the mask
\* zeroed an entry.
C15_EncoderTensorsNotMutated ==
  pc \notin {"new", "raised", "idle"} =>
    /\ heap_hidden = caller_hidden
    /\ heap_outputs = caller_outputs
    /\ ret_dict.encoder_hidden = caller_hidden
    /\ ret_dict.encoder_outputs = caller_outputs
    /\ ~use_k_sparsity => (encoder_hidden = caller_hidden /\ encoder_outputs = caller_outputs)
    /\ gated # <<"encoder_hidden">> => encoder_hidden = caller_hidden
    /\ gated # <<"encoder_outputs">> => encoder_outputs = caller_outputs

\* C15 witness: a call has returned whose gate zeroed entries of
\* encoder_hidden, with the value received in ret_dict.
C15_Witness ==
  /\ pc = "done"
  /\ "sequence" \in DOMAIN ret_dict
  /\ gated = <<"encoder_hidden">>
  /\ encoder_hidden # caller_hidden
  /\ ret_dict.encoder_hidden = caller_hidden

\* C16: in an unrolled call, after the step with index n - 1 the lists of
\* output distributions and symbols (and of attention scores, with
\* attention) have length n, n never exceeds max_length and is max_length
\* at the return; the input of step 0 and, under teacher forcing, of every
\* step, is the target token at the step's position, every other step's
\* input is the symbol recorded at the step before, which has the largest
\* value of that step's output distribution.
C16_UnrolledStepInputs ==
  (pc \in {"unroll", "done"} /\ unrolling) =>
    /\ di <= max_length
    /\ pc = "done" => di = max_length
    /\ Len(step_inputs) = di
    /\ Len(decoder_outputs) = di
    /\ Len(sequence_symbols) = di
    /\ use_attention # "none" => Len(ret_dict.attention_score) = di
    /\ \A n \in 1..di : \A b \in Batch :
         /\ step_inputs[n][b] =
              IF n = 1 \/ rand < teacher_forcing_ratio
              THEN <<inputs[b][n]>> ELSE <<sequence_symbols[n - 1][b]>>
         /\ \A v \in Vocab : decoder_outputs[n][b][v] <= decoder_outputs[n][b][sequence_symbols[n][b]]

\* C16 witness: an unrolled call with attention and without teacher forcing
\* has returned, in which a step after step 0 took the symbol recorded
\* before, which differs from the target token at the step's position.
C16_Witness ==
  /\ pc = "done" /\ unrolling /\ inputs_given
  /\ use_attention = "pre-rnn"
  /\ ~(rand < teacher_forcing_ratio)
  /\ Len(ret_dict.attention_score) = MaxLen
  /\ \E b \in Batch : \E n \in 2..max_length :
       /\ inputs[b][n] # sequence_symbols[n - 1][b]
       /\ step_inputs[n][b] = <<sequence_symbols[n - 1][b]>>

\* C17 as claimed: in a forward call of a decoder with sparsity enabled the
\* gate is applied once, to one tensor: encoder_hidden when it is
\* designated, otherwise encoder_outputs; the recurrent state starts from
\* the tensors after the gate, the decode loop applies no gate, and with
\* encoder_hidden gated encoder_outputs is used as received.
C17_GateOnceHiddenFirst ==
  (use_k_sparsity /\ pc \notin {"new", "raised", "idle"}) =>
    /\ Len(gated) = 1
    /\ gated[1] = IF "encoder_hidden" \in k_sparsity_layers[1]
                  THEN "encoder_hidden" ELSE "encoder_outputs"
    /\ gated[1] = "encoder_hidden" => encoder_outputs = caller_outputs
    /\ gated[1] = "encoder_outputs" => encoder_hidden = caller_hidden
    /\ (di = 0 /\ pc \in {"unroll", "batched"}) => decoder_hidden = encoder_hidden

\* C12 as claimed: after any sequence of eval_batch calls, batches without
\* examples and empty parameter lists included, get_loss returns a value:
\* 0 when nothing was accumulated, acc_loss / norm_term otherwise.
C12_GetLossDefined ==
  loss_val # <<>> =>
    /\ loss_val[1] = "value"
    /\ scalars = 0 => loss_val[2] = 0
    /\ scalars > 0 => (loss_val[2] = acc_loss.val /\ loss_val[3] = norm_term)

\* C13 as claimed: norm_term is the count of the elements that contributed
\* to acc_loss, whether the elements counted are the examples (the tensors
\* of a parameter list) or the scalar entries.
C13_NormTermCountsElements == norm_term = examples \/ norm_term = scalars

\* the tracked objects of the info with the prefix of their keys:
\* <<prefix, object>> for the metrics and for the losses
InfoMetrics(inf) ==
  {<<"train", inf.train_metrics[i]>> : i \in DOMAIN inf.train_metrics}
    \cup {<<"eval", inf.eval_metrics[i]>> : i \in DOMAIN inf.eval_metrics}
    \cup UNION {{<<MonitorName(inf.monitor_metrics[q][1]), inf.monitor_metrics[q][2][i]>> :
                   i \in DOMAIN inf.monitor_metrics[q][2]} : q \in DOMAIN inf.monitor_metrics}

InfoLosses(inf) ==
  {<<"train", inf.train_losses[i]>> : i \in DOMAIN inf.train_losses}
    \cup {<<"eval", inf.eval_losses[i]>> : i \in DOMAIN inf.eval_losses}
    \cup UNION {{<<MonitorName(inf.monitor_losses[q][1]), inf.monitor_losses[q][2][i]>> :
                   i \in DOMAIN inf.monitor_losses[q][2]} : q \in DOMAIN inf.monitor_losses}

\* C14 as claimed: every on_epoch_end sends a mapping that holds, for every
\* tracked loss of the train split, the eval split and each monitor, the
\* loss's value under the key prefix_logname of that loss, and for every
\* tracked metric still the metric's value.
C14_LossesKeyedByOwnName ==
  info # <<>> =>
    /\ ~log_raised
    /\ sink # <<>>
    /\ \A e \in InfoLosses(info[1]) :
         /\ Key(e[1], e[2].log_name) \in DOMAIN sink[1]
         /\ sink[1][Key(e[1], e[2].log_name)] = e[2].val
    /\ \A e \in InfoMetrics(info[1]) :
         /\ Key(e[1], e[2].log_name) \in DOMAIN sink[1]
         /\ sink[1][Key(e[1], e[2].log_name)] = e[2].val
====
